---- MODULE Spec2Model ----
\* Verification model of xpolbeamline/events.py: the event extraction chain
\* (ExtractionChain.__call__) and the stand-alone catalog functions
\* (acis_grade, asca_grade, hotpixelfromtxt, hotpixelbyoccurence,
\* make_hotpixellist).
\*
\* Number representation.  Pixel values of the background-subtracted stack are
\* kept exactly as integers in units of 1/2 count (np.median of an even number
\* of values is the mean of the two middle ones).  A float that may be NaN is a
\* record [fin, v]; arithmetic and comparisons follow IEEE rules (NaN
\* propagates through sums, every comparison with NaN is false).
EXTENDS Integers, Sequences, FiniteSets

VARIABLES
    pc,          \* position of the run inside ExtractionChain.__call__, or of a stand-alone call
    fileOK,      \* whether fits.open(fitsimage) succeeds
    image,       \* self.image: raw stack, image[frame][x][y], whole counts
    hdr,         \* self.hdr: the FITS header, a function from present keys to values
    bkgremoved,  \* self.bkgremoved, in half counts
    peaks,       \* the (X, Y, FRAME) rows as returned by self.evt_identify
    evt,         \* the event table: [colnames, rows, meta]
    rnd,         \* the values np.random.rand(len(evt)) returned, in tenths
    ret,         \* value returned to the caller
    failedAt,    \* statement that raised, "" when none did
    arg          \* arguments of a stand-alone call

vars == <<pc, fileOK, image, hdr, bkgremoved, peaks, evt, rnd, ret, failedAt, arg>>

-----------------------------------------------------------------------------
\* Bounds of the model

\* number of frames of the stack
NFrames == 2
\* extent of a frame along x (axis 1) and along y (axis 2)
NX == 5
NY == 5

-----------------------------------------------------------------------------
\* Program constants

\* pixel values are stored as value * MedianDen
MedianDen == 2
\* default sigma_clip_level of identify_evt_sigmaclip
sigma_clip_level == 5
\* default peak_size of identify_evt_sigmaclip
peak_size == 3
\* threshold of acis_grade
GradeThreshold == 10
\* the two factors 2.2 and 3.66 of energy55, in units of 1/10 and 1/100
Gain10 == 22
EvPerElectron100 == 366
\* np.random.rand() - .5: the .5 in tenths, and the denominator of the tenths
RandHalf10 == 5
RandDen == 10
\* asca_grade's default category
AscaOther == 7
\* lower limit of the default n of hotpixelbyoccurence
HotDefault == 3

grademap == <<<<32, 64, 128>>,
              <<8, 0, 16>>,
              <<1, 2, 4>>>>

acis2asca == <<{0},
               {1, 4, 5, 32, 128, 33, 36, 37, 129, 132, 133, 160, 161, 164, 165},
               {64, 65, 68, 69, 2, 34, 130, 162},
               {8, 12, 136, 140},
               {16, 17, 48, 49},
               {3, 6, 9, 20, 40, 96, 144, 192, 13, 21, 35, 38, 44, 52, 53, 97,
                100, 101, 131, 134, 137, 141, 145, 163, 166, 168, 172, 176,
                177, 193, 196, 197},
               {72, 76, 104, 108, 10, 11, 138, 139, 18, 22, 50, 54, 80, 81,
                208, 209}>>

-----------------------------------------------------------------------------
\* Floats and small helpers

Float(v) == [fin |-> TRUE, v |-> v]
NaN == [fin |-> FALSE, v |-> 0]
FAdd(a, b) == IF a.fin /\ b.fin THEN Float(a.v + b.v) ELSE NaN
FGt(a, k) == a.fin /\ a.v > k

Abs(a) == IF a < 0 THEN -a ELSE a
Max(a, b) == IF a >= b THEN a ELSE b

RECURSIVE SumSeq(_)
SumSeq(s) == IF s = <<>> THEN 0 ELSE Head(s) + SumSeq(Tail(s))

RECURSIVE SumSq(_)
SumSq(s) == IF s = <<>> THEN 0 ELSE Head(s) * Head(s) + SumSq(Tail(s))

RECURSIVE FSum(_)
FSum(s) == IF s = <<>> THEN Float(0) ELSE FAdd(Head(s), FSum(Tail(s)))

\* d[k] = v on a dict: an existing key is overwritten
SetItem(d, k, v) == [x \in DOMAIN d \cup {k} |-> IF x = k THEN v ELSE d[x]]

Frames == 0 .. NFrames - 1
XS == 0 .. NX - 1
YS == 0 .. NY - 1

\* the positions (frame, x, y) of a stack in C order
NPix == NFrames * NX * NY
PosOf(i) == <<(i - 1) \div (NX * NY), ((i - 1) \div NY) % NX, (i - 1) % NY>>
AllPos == [i \in 1 .. NPix |-> PosOf(i)]

-----------------------------------------------------------------------------
\* median_column_remover

\* insertion of v into the ascending sequence s
RECURSIVE Insert(_, _)
Insert(s, v) ==
    IF s = <<>> THEN <<v>>
    ELSE IF v <= Head(s) THEN <<v>> \o s
    ELSE <<Head(s)>> \o Insert(Tail(s), v)

RECURSIVE Sorted(_)
Sorted(s) == IF s = <<>> THEN <<>> ELSE Insert(Sorted(Tail(s)), Head(s))

\* np.median of a non-empty sequence, times MedianDen
Median2(s) ==
    LET t == Sorted(s)
        n == Len(t)
    IN  IF n % 2 = 1 THEN MedianDen * t[(n + 1) \div 2]
        ELSE t[n \div 2] + t[n \div 2 + 1]

\* image - np.median(image, axis=1)[:, np.newaxis], times MedianDen
median_column_remover(img) ==
    [f \in Frames |-> [x \in XS |-> [y \in YS |->
        MedianDen * img[f][x][y] - Median2([i \in 1 .. NX |-> img[f][i - 1][y]])]]]

-----------------------------------------------------------------------------
\* identify_evt_sigmaclip

Flat(img) == [i \in 1 .. NPix |-> img[AllPos[i][1]][AllPos[i][2]][AllPos[i][3]]]

\* With n = c.size, S = sum(c), D = n*sum(c^2) - S^2: mean = S/n, std = sqrt(D)/n,
\* so v > mean + k*std  iff  n*v - S > k*sqrt(D).
Stats(c) == [n |-> Len(c), S |-> SumSeq(c),
             D |-> Len(c) * SumSq(c) - SumSeq(c) * SumSeq(c)]
AboveUpper(st, v, k) ==
    LET a == st.n * v - st.S
    IN  a > 0 /\ a * a > k * k * st.D
BelowLower(st, v, k) ==
    LET a == st.S - st.n * v
    IN  a > 0 /\ a * a > k * k * st.D

\* scipy.stats.sigmaclip: the statistics of the sample of the last iteration,
\* from which critupper is computed
RECURSIVE sigmaclip(_, _, _)
sigmaclip(c, low, high) ==
    LET st == Stats(c)
        keep(v) == ~BelowLower(st, v, low) /\ ~AboveUpper(st, v, high)
        c2 == SelectSeq(c, keep)
    IN  IF Len(c2) = Len(c) THEN st ELSE sigmaclip(c2, low, high)

InFrame(x, y) == x \in XS /\ y \in YS

\* scipy.ndimage.maximum_filter(image, size=(1, peak_size, peak_size)) at one pixel
\* (mode 'reflect' repeats pixels of the window itself)
maximum_filter(img, f, x, y) ==
    LET h == (peak_size - 1) \div 2
        win == {img[f][i][j] : <<i, j>> \in
                  {p \in (x - h .. x + h) \X (y - h .. y + h) : InFrame(p[1], p[2])}}
    IN  CHOOSE m \in win : \A w \in win : w <= m

identify_evt_sigmaclip(img) ==
    LET sc == sigmaclip(Flat(img), sigma_clip_level, sigma_clip_level)
        isPeak(p) == /\ AboveUpper(sc, img[p[1]][p[2]][p[3]], sigma_clip_level)
                     /\ img[p[1]][p[2]][p[3]] = maximum_filter(img, p[1], p[2], p[3])
        found == SelectSeq(AllPos, isPeak)
    IN  [i \in 1 .. Len(found) |->
            [X |-> found[i][2], Y |-> found[i][3], FRAME |-> found[i][1]]]

-----------------------------------------------------------------------------
\* Tables (astropy.table.Table) and results of calls

Ok(v) == [ok |-> TRUE, val |-> v, err |-> ""]
Raise(e) == [ok |-> FALSE, val |-> <<>>, err |-> e]

EmptyTable == [colnames |-> <<>>, rows |-> <<>>, meta |-> <<>>]

HasCol(t, name) == \E i \in DOMAIN t.colnames : t.colnames[i] = name

\* t[name] = col: a new column is appended, an existing one is replaced
SetColumn(t, name, col) ==
    [t EXCEPT !.colnames = IF HasCol(t, name) THEN @ ELSE Append(@, name),
              !.rows = [i \in DOMAIN t.rows |-> SetItem(t.rows[i], name, col[i])]]

\* Table([x, y, frame], names=['X', 'Y', 'FRAME'])
NewTable(rows) == [colnames |-> <<"X", "Y", "FRAME">>, rows |-> rows, meta |-> <<>>]

-----------------------------------------------------------------------------
\* translate_wcs, for headers without WCSNAME keys

translate_wcs(t) ==
    IF ~({"THROWOUT", "FRAMETIM"} \subseteq DOMAIN t.meta) THEN Raise("KeyError")
    ELSE Ok(SetColumn(t, "TIME",
            [i \in DOMAIN t.rows |->
                (t.rows[i].FRAME + t.meta["THROWOUT"][1]) * t.meta["FRAMETIM"][1]]))

-----------------------------------------------------------------------------
\* add_islands5533

\* side of the island handed to extract_array
IslandSize == 5

\* astropy.nddata.utils.extract_array(frame, (5, 5), (x, y)) in mode 'partial'
\* with fill_value NaN: no overlap of window and frame raises NoOverlapError.
\* extract_array_zero is extract_array, were its fill value 0.
Overlaps(x, y) ==
    LET h == (IslandSize - 1) \div 2
    IN  x + h >= 0 /\ x - h <= NX - 1 /\ y + h >= 0 /\ y - h <= NY - 1

extract_array_zero(img, f, x, y) ==
    LET h == (IslandSize - 1) \div 2
    IN  [a \in 1 .. IslandSize |-> [b \in 1 .. IslandSize |->
            IF InFrame(x - h - 1 + a, y - h - 1 + b)
            THEN Float(img[f][x - h - 1 + a][y - h - 1 + b])
            ELSE Float(0)]]

extract_array(img, f, x, y) ==
    LET h == (IslandSize - 1) \div 2
    IN  [a \in 1 .. IslandSize |-> [b \in 1 .. IslandSize |->
            IF InFrame(x - h - 1 + a, y - h - 1 + b)
            THEN Float(img[f][x - h - 1 + a][y - h - 1 + b])
            ELSE NaN]]

\* island[1:-1, 1:-1]
Inset(isl) == [a \in 1 .. Len(isl) - 2 |-> [b \in 1 .. Len(isl) - 2 |-> isl[a + 1][b + 1]]]

add_islands5533(t, img) ==
    IF \E i \in DOMAIN t.rows : ~Overlaps(t.rows[i].X, t.rows[i].Y)
    THEN Raise("NoOverlapError")
    ELSE IF t.rows = <<>> THEN Raise("IndexError")
    ELSE LET t5 == SetColumn(t, "5X5",
                     [i \in DOMAIN t.rows |->
                        extract_array(img, t.rows[i].FRAME, t.rows[i].X, t.rows[i].Y)])
         IN  Ok(SetColumn(t5, "3X3", [i \in DOMAIN t5.rows |-> Inset(t5.rows[i]["5X5"])]))

-----------------------------------------------------------------------------
\* energy55

RECURSIVE Flatten(_)
Flatten(m) == IF m = <<>> THEN <<>> ELSE Head(m) \o Flatten(Tail(m))

\* the island whose sum energy55 converts
EnergyIsland(row) == row["5X5"]

\* (sum + rand - .5) * 2.2 * 3.66 eV in units of 1/10000 eV; r[i] is the i-th
\* value of np.random.rand(len(evt)) in tenths
energy55(t, r) ==
    [i \in DOMAIN t.rows |->
        LET s == FSum(Flatten(EnergyIsland(t.rows[i])))
        IN  IF s.fin
            THEN Float(((RandDen \div MedianDen) * s.v + r[i] - RandHalf10)
                       * Gain10 * EvPerElectron100)
            ELSE NaN]

-----------------------------------------------------------------------------
\* acis_grade, asca_grade

\* the threshold test, were it >= 10
OverThreshold_ge(p) == p.fin /\ p.v >= MedianDen * GradeThreshold

\* evt['3X3'].data > 10
OverThreshold(p) == FGt(p, MedianDen * GradeThreshold)

GradeOf(isl) ==
    SumSeq(Flatten([a \in 1 .. 3 |-> [b \in 1 .. 3 |->
        IF OverThreshold(isl[a][b]) THEN grademap[a][b] ELSE 0]]))

acis_grade(t) == [i \in DOMAIN t.rows |-> GradeOf(t.rows[i]["3X3"])]

\* the loop of asca_grade over the keys 0..6 of acis2asca, from key k on
RECURSIVE AscaLoop(_, _, _)
AscaLoop(g, asca, k) ==
    IF k > Len(acis2asca) THEN asca
    ELSE AscaLoop(g, IF g \in acis2asca[k] THEN k - 1 ELSE asca, k + 1)

AscaOf(g) == AscaLoop(g, AscaOther, 1)

asca_grade(t) ==
    IF ~HasCol(t, "GRADE") THEN Raise("KeyError")
    ELSE Ok([i \in DOMAIN t.rows |-> AscaOf(t.rows[i].GRADE)])

-----------------------------------------------------------------------------
\* hotpixelfromtxt

\* zip(x, y)
Zip(x, y) ==
    [i \in 1 .. (IF Len(x) <= Len(y) THEN Len(x) ELSE Len(y)) |-> <<x[i], y[i]>>]

\* hotpixelfromtxt without its check of the lengths
hotpixelfromtxt_truncate(t, x, y) ==
    LET hotpix == Zip(x, y)
    IN  Ok([i \in DOMAIN t.rows |->
               \E k \in DOMAIN hotpix : hotpix[k] = <<t.rows[i].X, t.rows[i].Y>>])

hotpixelfromtxt(t, x, y) ==
    IF Len(x) # Len(y) THEN Raise("ValueError")
    ELSE LET hotpix == Zip(x, y)
         IN  Ok([i \in DOMAIN t.rows |->
                    \E k \in DOMAIN hotpix : hotpix[k] = <<t.rows[i].X, t.rows[i].Y>>])

-----------------------------------------------------------------------------
\* np.unique(xy, axis=1) of xy = np.vstack([evt['X'], evt['Y']])

\* the columns of xy
XY(t) == [i \in DOMAIN t.rows |-> <<t.rows[i].X, t.rows[i].Y>>]

PairLess(p, q) == p[1] < q[1] \/ (p[1] = q[1] /\ p[2] < q[2])

\* insertion of p into the strictly ascending sequence s of pairs
RECURSIVE InsertPair(_, _)
InsertPair(s, p) ==
    IF s = <<>> THEN <<p>>
    ELSE IF p = Head(s) THEN s
    ELSE IF PairLess(p, Head(s)) THEN <<p>> \o s
    ELSE <<Head(s)>> \o InsertPair(Tail(s), p)

\* the distinct columns in lexicographic order
RECURSIVE Unique(_)
Unique(xy) == IF xy = <<>> THEN <<>> ELSE InsertPair(Unique(Tail(xy)), Head(xy))

\* return_inverse: Unique(xy)[UniqueInv(xy)[i]] = xy[i]
UniqueInv(xy) ==
    [i \in DOMAIN xy |-> CHOOSE k \in DOMAIN Unique(xy) : Unique(xy)[k] = xy[i]]

\* return_counts
UniqueCounts(xy) ==
    [k \in DOMAIN Unique(xy) |-> Len(SelectSeq(xy, LAMBDA p : p = Unique(xy)[k]))]

-----------------------------------------------------------------------------
\* hotpixelbyoccurence.  n is <<>> for None and <<k>> for the integer k.

\* the divisor of the default n, FRAMES / 3
HotFrac == 3

\* the comparison, were it count >= n
HotCompare_ge(count3, n3) == count3 >= n3

\* count > n for 3 * count and 3 * n
HotCompare(count3, n3) == count3 > n3

hotpixelbyoccurence(t, n) ==
    IF n = <<>> /\ "FRAMES" \notin DOMAIN t.meta THEN Raise("KeyError")
    ELSE LET n3 == IF n = <<>> THEN Max(t.meta["FRAMES"][1], HotFrac * HotDefault)
                   ELSE HotFrac * n[1]
             counts == UniqueCounts(XY(t))
             inv == UniqueInv(XY(t))
         IN  Ok([i \in DOMAIN t.rows |-> HotCompare(HotFrac * counts[inv[i]], n3)])

-----------------------------------------------------------------------------
\* make_hotpixellist

\* a[mask] on the first axis of a 2-d array a (a sequence of rows): a mask of
\* another length than the axis raises IndexError
BoolIndex(a, mask) ==
    IF Len(mask) # Len(a) THEN Raise("IndexError")
    ELSE Ok(LET idx == SelectSeq([i \in DOMAIN a |-> i], LAMBDA i : mask[i])
            IN  [j \in DOMAIN idx |-> a[idx[j]]])

\* a.T of a 2-d array with ncols columns
Transpose(a, ncols) == [c \in 1 .. ncols |-> [r \in DOMAIN a |-> a[r][c]]]

\* the array the mask of make_hotpixellist indexes: unique has shape (2, m)
HotIndexed(unique) == [r \in 1 .. 2 |-> [c \in DOMAIN unique |-> unique[c][r]]]

make_hotpixellist(t, n) ==
    LET unique == Unique(XY(t))
        counts == UniqueCounts(XY(t))
        mask == [k \in DOMAIN counts |-> counts[k] > n]
        hotpix == BoolIndex(HotIndexed(unique), mask)
    IN  IF ~hotpix.ok THEN hotpix
        ELSE LET data == Transpose(hotpix.val, Len(unique))
             \* Table(data, names=['X', 'Y']): one name per column of data
             IN  IF Len(hotpix.val) # 2 THEN Raise("ValueError")
                 ELSE Ok([colnames |-> <<"X", "Y">>,
                          rows |-> [i \in DOMAIN data |-> [X |-> data[i][1], Y |-> data[i][2]]],
                          meta |-> SetItem(t.meta, "EXTNAME", "HOTPIX")])

-----------------------------------------------------------------------------
\* ExtractionChain

\* process_steps, were ASCA listed before GRADE
process_steps_swapped == <<"ENERGY", "ASCA", "GRADE", "HOTPIX", "ONEDGE">>

process_steps == <<"ENERGY", "GRADE", "ASCA", "HOTPIX", "ONEDGE">>

\* descr(func) of the functions of process_steps
descr(colname) ==
    CASE colname = "ENERGY" -> "energy55"
      [] colname = "GRADE" -> "acis_grade"
      [] colname = "ASCA" -> "asca_grade"
      [] colname = "HOTPIX" -> "hotpixelbyoccurence"
      [] colname = "ONEDGE" -> "<lambda>"

\* process_steps['ONEDGE']: ~np.isfinite(x['ENERGY'])
onedge(t) ==
    IF ~HasCol(t, "ENERGY") THEN Raise("KeyError")
    ELSE Ok([i \in DOMAIN t.rows |-> ~t.rows[i].ENERGY.fin])

\* func(evt, **kwargs) with kwargs = {} for the function stored under colname
CallStep(colname, t, r) ==
    CASE colname = "ENERGY" -> Ok(energy55(t, r))
      [] colname = "GRADE" -> Ok(acis_grade(t))
      [] colname = "ASCA" -> asca_grade(t)
      [] colname = "HOTPIX" -> hotpixelbyoccurence(t, <<>>)
      [] colname = "ONEDGE" -> onedge(t)

\* for k in hdr: evt.meta[k] = (hdr[k], hdr.comments[k])
RECURSIVE CopyHeader(_, _, _)
CopyHeader(m, h, keys) ==
    IF keys = {} THEN m
    ELSE LET k == CHOOSE k \in keys : TRUE
         IN  CopyHeader(SetItem(m, k, <<h[k], "">>), h, keys \ {k})

\* the three assignments to evt.meta['HISTORY'] in add_header
HeaderHistory(m) ==
    SetItem(SetItem(SetItem(m,
        "HISTORY", <<"image fitted:", "median_column_remover">>),
        "HISTORY", <<"evt identify:">>),
        "HISTORY", <<"event islands extracted:", "add_islands5533">>)

add_header(t, h) ==
    LET m1 == CopyHeader(t.meta, h, DOMAIN h)
        m2 == SetItem(m1, "EXTNAME", "EVENTS")
        m3 == SetItem(m2, "CREATOR", <<"XPOLBEAMLINE V", "Code for event detection">>)
        m4 == SetItem(m3, "DATE", <<"now", "Date of event detection">>)
    IN  translate_wcs([t EXCEPT !.meta = HeaderHistory(m4)])

\* correct_xy_roi, were it to drop the events it moves out of the frame
correct_xy_roi_clip(t, h) ==
    IF ~({"ROIX0", "ROIY0"} \subseteq DOMAIN h) THEN Raise("KeyError")
    ELSE Ok([t EXCEPT !.rows =
                SelectSeq([i \in DOMAIN t.rows |->
                              [t.rows[i] EXCEPT !.X = @ + h["ROIX0"] - 1,
                                                !.Y = @ + h["ROIY0"] - 1]],
                          LAMBDA r : InFrame(r.X, r.Y))])

\* evt['X'] += self.hdr['ROIX0'] - 1; evt['Y'] += self.hdr['ROIY0'] - 1
correct_xy_roi(t, h) ==
    IF ~({"ROIX0", "ROIY0"} \subseteq DOMAIN h) THEN Raise("KeyError")
    ELSE Ok([t EXCEPT !.rows = [i \in DOMAIN t.rows |->
                [t.rows[i] EXCEPT !.X = @ + h["ROIX0"] - 1, !.Y = @ + h["ROIY0"] - 1]]])

\* evt['HISTORY'] = '{} made by {}'.format(colname, self.descr(func))
StepHistory(t, colname) ==
    SetColumn(t, "HISTORY", [i \in DOMAIN t.rows |-> <<colname, "made by", descr(colname)>>])

-----------------------------------------------------------------------------
\* Inputs

\* raw counts: a pedestal that depends on the column and alternates from row
\* to row, plus the charge of the bumps at the pixel
Pedestal(x, y) == 10 + y + (x % 2)

Bump(f, x, y, h) == [f |-> f, x |-> x, y |-> y, h |-> h]

BumpCandidates ==
    { Bump(0, 2, 2, 24), Bump(0, 2, 3, 12), Bump(0, 2, 4, 3),
      Bump(1, 2, 2, 100), Bump(NFrames - 1, 0, NY - 1, 60) }

RECURSIVE SumH(_)
SumH(bs) == IF bs = {} THEN 0
            ELSE LET b == CHOOSE b \in bs : TRUE IN b.h + SumH(bs \ {b})

MakeImage(bumps) ==
    [f \in Frames |-> [x \in XS |-> [y \in YS |->
        Pedestal(x, y) + SumH({b \in bumps : b.f = f /\ b.x = x /\ b.y = y})]]]

Images == {MakeImage(bs) : bs \in SUBSET BumpCandidates}

ROIVals == {1, 2, 7}

HeaderKeys == {"FRAMES", "THROWOUT", "FRAMETIM", "ROIX0", "ROIY0"}

FullHeader(rx, ry) ==
    [FRAMES |-> NFrames, THROWOUT |-> 1, FRAMETIM |-> 1, ROIX0 |-> rx, ROIY0 |-> ry]

\* headers with all keys, or with one key missing
Headers ==
    {[k \in HeaderKeys \ miss |-> FullHeader(rx, ry)[k]] :
        rx \in ROIVals, ry \in ROIVals,
        miss \in {{}, {"FRAMES"}, {"FRAMETIM"}, {"ROIX0"}}}

\* np.random.rand() lies in [0, 1): the tenths drawn
RandTenths == {0, 9}

NoReturn == [returned |-> FALSE, value |-> EmptyTable]
Returned(v) == [returned |-> TRUE, value |-> v]

-----------------------------------------------------------------------------
\* ExtractionChain.__call__, one action per statement

Init ==
    /\ pc = "Idle"
    /\ fileOK \in BOOLEAN
    /\ image \in Images
    /\ hdr \in Headers
    /\ bkgremoved = <<>>
    /\ peaks = <<>>
    /\ evt = EmptyTable
    /\ rnd = <<>>
    /\ ret = NoReturn
    /\ failedAt = ""
    /\ arg = <<>>

Fail(where) ==
    /\ pc' = "Failed"
    /\ failedAt' = where

\* with fits.open(fitsimage) as hdulist: ...
Load ==
    /\ pc = "Idle"
    /\ IF fileOK THEN pc' = "Loaded" /\ failedAt' = failedAt ELSE Fail("fits.open")
    /\ UNCHANGED <<fileOK, image, hdr, bkgremoved, peaks, evt, rnd, ret, arg>>

\* self.bkgremoved = self.bkg_remover(self.image)
BkgRemove ==
    /\ pc = "Loaded"
    /\ bkgremoved' = median_column_remover(image)
    /\ pc' = "BackgroundSubtracted"
    /\ UNCHANGED <<fileOK, image, hdr, peaks, evt, rnd, ret, failedAt, arg>>

\* evt = self.evt_identify(self.bkgremoved)
Identify ==
    /\ pc = "BackgroundSubtracted"
    /\ peaks' = identify_evt_sigmaclip(bkgremoved)
    /\ evt' = NewTable(peaks')
    /\ pc' = "PeaksIdentified"
    /\ UNCHANGED <<fileOK, image, hdr, bkgremoved, rnd, ret, failedAt, arg>>

\* self.add_header(evt, self.hdr)
AddHeader ==
    /\ pc = "PeaksIdentified"
    /\ LET r == add_header(evt, hdr)
       IN  IF r.ok THEN evt' = r.val /\ pc' = "MetadataAttached" /\ failedAt' = failedAt
           ELSE evt' = evt /\ Fail("add_header")
    /\ UNCHANGED <<fileOK, image, hdr, bkgremoved, peaks, rnd, ret, arg>>

\* self.correct_xy_roi(evt)
CorrectXYRoi ==
    /\ pc = "MetadataAttached"
    /\ LET r == correct_xy_roi(evt, hdr)
       IN  IF r.ok THEN evt' = r.val /\ pc' = "CoordinatesCorrected" /\ failedAt' = failedAt
           ELSE evt' = evt /\ Fail("correct_xy_roi")
    /\ UNCHANGED <<fileOK, image, hdr, bkgremoved, peaks, rnd, ret, arg>>

\* self.add_islands(evt, self.bkgremoved)
AddIslands ==
    /\ pc = "CoordinatesCorrected"
    /\ LET r == add_islands5533(evt, bkgremoved)
       IN  IF r.ok THEN evt' = r.val /\ pc' = "IslandsExtracted" /\ failedAt' = failedAt
           ELSE evt' = evt /\ Fail("add_islands")
    /\ UNCHANGED <<fileOK, image, hdr, bkgremoved, peaks, rnd, ret, arg>>

\* the state in which the k-th iteration of the loop over process_steps starts
StepStart(k) == IF k = 1 THEN "IslandsExtracted" ELSE process_steps[k - 1]

\* one iteration of: for colname, call in self.process_steps.items(): ...
ProcessStep ==
    \E k \in DOMAIN process_steps :
        /\ pc = StepStart(k)
        /\ \E r \in [DOMAIN evt.rows -> RandTenths] :
            LET colname == process_steps[k]
                h == StepHistory(evt, colname)
                c == CallStep(colname, h, r)
            IN  /\ rnd' = IF colname = "ENERGY" THEN r ELSE rnd
                /\ colname # "ENERGY" => r = [i \in DOMAIN evt.rows |-> 0]
                /\ IF c.ok
                   THEN evt' = SetColumn(h, colname, c.val) /\ pc' = colname
                        /\ failedAt' = failedAt
                   ELSE evt' = h /\ Fail(colname)
        /\ UNCHANGED <<fileOK, image, hdr, bkgremoved, peaks, ret, arg>>

\* return evt
Return ==
    /\ pc = process_steps[Len(process_steps)]
    /\ ret' = Returned(evt)
    /\ pc' = "ColumnsComputed"
    /\ UNCHANGED <<fileOK, image, hdr, bkgremoved, peaks, evt, rnd, failedAt, arg>>

Next == Load \/ BkgRemove \/ Identify \/ AddHeader \/ CorrectXYRoi \/ AddIslands
        \/ ProcessStep \/ Return

Spec == Init /\ [][Next]_vars

-----------------------------------------------------------------------------
\* Stand-alone calls of the hot pixel functions on a catalog

\* longest catalog, largest n and longest coordinate list of the calls
MaxRows == 4
MaxN == 3
MaxList == 2

CoordVals == {3, 4}

SeqsUpTo(S, n) == UNION {[1 .. k -> S] : k \in 0 .. n}

\* the catalogs of 1 to MaxRows events
Catalogs ==
    {[colnames |-> <<"X", "Y", "FRAME">>,
      rows |-> [i \in DOMAIN xy |-> [X |-> xy[i][1], Y |-> xy[i][2], FRAME |-> i - 1]],
      meta |-> [FRAMES |-> <<MaxRows - 1, "">>]] :
        xy \in SeqsUpTo(CoordVals \X CoordVals, MaxRows) \ {<<>>}}

Unused ==
    /\ fileOK = TRUE
    /\ image = <<>>
    /\ hdr = <<>>
    /\ bkgremoved = <<>>
    /\ peaks = <<>>
    /\ rnd = <<>>
    /\ failedAt = ""

InitHot ==
    /\ pc = "Idle"
    /\ evt \in Catalogs
    /\ ret = Raise("")
    /\ arg = <<>>
    /\ Unused

CallHotpixelbyoccurence ==
    /\ pc = "Idle"
    /\ \E n \in {<<>>} \cup {<<k>> : k \in 0 .. MaxN} :
        /\ arg' = [n |-> n]
        /\ ret' = hotpixelbyoccurence(evt, n)
    /\ pc' = "hotpixelbyoccurence"
    /\ UNCHANGED <<fileOK, image, hdr, bkgremoved, peaks, evt, rnd, failedAt>>

CallMakeHotpixellist ==
    /\ pc = "Idle"
    /\ \E n \in 0 .. MaxN :
        /\ arg' = [n |-> <<n>>]
        /\ ret' = make_hotpixellist(evt, n)
    /\ pc' = "make_hotpixellist"
    /\ UNCHANGED <<fileOK, image, hdr, bkgremoved, peaks, evt, rnd, failedAt>>

CallHotpixelfromtxt ==
    /\ pc = "Idle"
    /\ \E x \in SeqsUpTo(CoordVals, MaxList), y \in SeqsUpTo(CoordVals, MaxList) :
        /\ arg' = [x |-> x, y |-> y]
        /\ ret' = hotpixelfromtxt(evt, x, y)
    /\ pc' = "hotpixelfromtxt"
    /\ UNCHANGED <<fileOK, image, hdr, bkgremoved, peaks, evt, rnd, failedAt>>

NextHot == CallHotpixelbyoccurence \/ CallMakeHotpixellist \/ CallHotpixelfromtxt

SpecHot == InitHot /\ [][NextHot]_vars

-----------------------------------------------------------------------------
\* Stand-alone calls of acis_grade and asca_grade on a one-row catalog

\* 10, 10.5 and 11 counts, and NaN
PixVals == {Float(MedianDen * GradeThreshold), Float(MedianDen * GradeThreshold + 1),
            Float(MedianDen * (GradeThreshold + 1)), NaN}

\* islands whose centre pixel is the brightest finite value
Islands ==
    {[a \in 1 .. 3 |-> [b \in 1 .. 3 |->
        IF a = 2 /\ b = 2 THEN Float(MedianDen * (GradeThreshold + 1)) ELSE ring[<<a, b>>]]] :
        ring \in [((1 .. 3) \X (1 .. 3)) \ {<<2, 2>>} -> PixVals \ {Float(MedianDen * GradeThreshold + 1)}]}
    \cup
    {[a \in 1 .. 3 |-> [b \in 1 .. 3 |-> v]] : v \in PixVals}

InitGrade ==
    /\ pc = "Idle"
    /\ \E isl \in Islands :
        evt = [colnames |-> <<"3X3">>, rows |-> <<[3X3 |-> isl]>>, meta |-> <<>>]
    /\ ret = Raise("")
    /\ arg = <<>>
    /\ Unused

\* evt['GRADE'] = acis_grade(evt)
CallAcisGrade ==
    /\ pc = "Idle"
    /\ ret' = Ok(acis_grade(evt))
    /\ evt' = SetColumn(evt, "GRADE", ret'.val)
    /\ pc' = "acis_grade"
    /\ UNCHANGED <<fileOK, image, hdr, bkgremoved, peaks, rnd, failedAt, arg>>

\* evt['ASCA'] = asca_grade(evt)
CallAscaGrade ==
    /\ pc = "acis_grade"
    /\ ret' = asca_grade(evt)
    /\ evt' = SetColumn(evt, "ASCA", ret'.val)
    /\ pc' = "asca_grade"
    /\ UNCHANGED <<fileOK, image, hdr, bkgremoved, peaks, rnd, failedAt, arg>>

NextGrade == CallAcisGrade \/ CallAscaGrade

SpecGrade == InitGrade /\ [][NextGrade]_vars

-----------------------------------------------------------------------------
\* Properties of the extraction chain (specification Spec)

\* C1: the catalog a completed run returns has as many rows as the peak
\* detector produced candidates, and so has the catalog after every step in
\* between: no step of the chain adds or removes a row.
C1_RowsPreserved ==
    /\ Len(evt.rows) = Len(peaks)
    /\ ret.returned => Len(ret.value.rows) = Len(peaks)

C1_Witness ==
    /\ ret.returned
    /\ Len(peaks) >= 2
    /\ Len(ret.value.rows) = Len(peaks)
    /\ \E i \in DOMAIN ret.value.rows : ret.value.rows[i].ONEDGE

\* the window of side 2h+1 around (x, y), as offsets and pixels
Window(x, y, h) == {[dx |-> dx, dy |-> dy, px |-> x + dx, py |-> y + dy] :
                       dx \in -h .. h, dy \in -h .. h}

\* round() of a value given in half counts
RoundHalfEven2(s2) ==
    IF s2 % 2 = 0 THEN s2 \div 2
    ELSE IF ((s2 - 1) \div 2) % 2 = 0 THEN (s2 - 1) \div 2 ELSE (s2 + 1) \div 2

\* C5 (as claimed): every event's energy, before the scaling by 2.2 * 3.66,
\* lies within 0.5 of the sum of its 3x3 island.  Stated for the events whose
\* 5x5 island lies in the frame and whose random draw is not 0.
C5_EnergyFrom3x3 ==
    HasCol(evt, "ENERGY") =>
        \A i \in DOMAIN evt.rows :
            LET row == evt.rows[i]
                s3 == FSum(Flatten(row["3X3"]))
            IN  (row.ENERGY.fin /\ rnd[i] > 0) =>
                    Abs(row.ENERGY.v
                        - RandDen * RoundHalfEven2(s3.v) * Gain10 * EvPerElectron100)
                      < RandHalf10 * Gain10 * EvPerElectron100

\* C6 (as amended): in every catalog that has islands, each position of an
\* event's 5x5 window that lies in the frame holds the pixel of the cleaned
\* stack and each position outside the frame holds NaN, in the 5X5 and in the
\* 3X3 column; and the extraction raises only for an empty catalog or for a
\* window that has no pixel in the frame.
C6_EdgeFilledWithNaN ==
    /\ HasCol(evt, "5X5") =>
        \A i \in DOMAIN evt.rows :
            LET row == evt.rows[i] IN
            \A w \in Window(row.X, row.Y, 2) :
                LET want == IF InFrame(w.px, w.py)
                            THEN Float(bkgremoved[row.FRAME][w.px][w.py])
                            ELSE NaN
                IN  /\ row["5X5"][w.dx + 3][w.dy + 3] = want
                    /\ (Abs(w.dx) <= 1 /\ Abs(w.dy) <= 1)
                          => row["3X3"][w.dx + 2][w.dy + 2] = want
    /\ failedAt = "add_islands" =>
        \/ evt.rows = <<>>
        \/ \E i \in DOMAIN evt.rows :
              \A w \in Window(evt.rows[i].X, evt.rows[i].Y, 2) : ~InFrame(w.px, w.py)

NearEdge(x, y) == InFrame(x, y) /\ (x < 2 \/ y < 2 \/ x > NX - 3 \/ y > NY - 3)

C6_Witness ==
    /\ HasCol(evt, "3X3")
    /\ \E i \in DOMAIN evt.rows :
          /\ NearEdge(evt.rows[i].X, evt.rows[i].Y)
          /\ ~evt.rows[i]["5X5"][1][5].fin
          /\ ~evt.rows[i]["3X3"][1][3].fin
          /\ evt.rows[i]["3X3"][2][2].fin

\* C6 (as claimed): each position of the window outside the frame holds zero.
C6_EdgeFilledWithZero ==
    HasCol(evt, "5X5") =>
        \A i \in DOMAIN evt.rows :
            \A w \in Window(evt.rows[i].X, evt.rows[i].Y, 2) :
                ~InFrame(w.px, w.py) =>
                    evt.rows[i]["5X5"][w.dx + 3][w.dy + 3] = Float(0)

\* the positions of a run, the derived columns, and what a step may do
ChainOrder ==
    <<"Idle", "Loaded", "BackgroundSubtracted", "PeaksIdentified", "MetadataAttached",
      "CoordinatesCorrected", "IslandsExtracted", "ENERGY", "GRADE", "ASCA", "HOTPIX",
      "ONEDGE", "ColumnsComputed">>

DerivedColumns == <<"ENERGY", "GRADE", "ASCA", "HOTPIX", "ONEDGE">>

StepAllowed ==
    \/ pc' = pc
    \/ pc' = "Failed" /\ pc \notin {"Failed", "ColumnsComputed"}
    \/ \E i \in 1 .. Len(ChainOrder) - 1 : pc = ChainOrder[i] /\ pc' = ChainOrder[i + 1]

ColumnsSoFar ==
    \A k \in DOMAIN DerivedColumns :
        pc = DerivedColumns[k] =>
            \A j \in DOMAIN DerivedColumns : HasCol(evt, DerivedColumns[j]) <=> j <= k

\* C8: a run steps through Loaded, BackgroundSubtracted, PeaksIdentified,
\* MetadataAttached, CoordinatesCorrected, IslandsExtracted, then ENERGY,
\* GRADE, ASCA, HOTPIX, ONEDGE in this order, or fails; when a stage has run
\* the columns of the stages before it are written and none of a later stage
\* is; no derived-column stage other than HOTPIX (which reads the header key
\* FRAMES) fails; the run ends in ColumnsComputed with the five columns and
\* the catalog returned, or in Failed with nothing returned.
C8_LinearRun ==
    /\ [][StepAllowed]_vars
    /\ [](pc \in {ChainOrder[i] : i \in DOMAIN ChainOrder} \cup {"Failed"})
    /\ []ColumnsSoFar
    /\ [](pc \in {"Idle", "Loaded", "BackgroundSubtracted", "PeaksIdentified",
                  "MetadataAttached", "CoordinatesCorrected", "IslandsExtracted"}
            => \A j \in DOMAIN DerivedColumns : ~HasCol(evt, DerivedColumns[j]))
    /\ [](pc = "Failed" => /\ ~ret.returned
                           /\ failedAt \in {"fits.open", "add_header", "correct_xy_roi",
                                            "add_islands", "HOTPIX"})
    /\ [](pc = "ColumnsComputed" =>
            /\ ret.returned
            /\ \A j \in DOMAIN DerivedColumns : HasCol(ret.value, DerivedColumns[j]))
    /\ [](ret.returned => pc = "ColumnsComputed")

C8_Witness ==
    /\ pc = "ColumnsComputed"
    /\ ret.returned
    /\ \A j \in DOMAIN DerivedColumns : HasCol(ret.value, DerivedColumns[j])
    /\ Len(ret.value.rows) >= 1

\* C9 (as claimed): in a completed run every event's 5x5 island is the window
\* of the cleaned stack centred on the (frame, x, y) at which the peak
\* detector found the event, and its 3x3 island is the inset crop of it.
C9_IslandAtDetectedPeak ==
    ret.returned =>
        \A i \in DOMAIN ret.value.rows :
            LET row == ret.value.rows[i] IN
            /\ row["3X3"] = Inset(row["5X5"])
            /\ \A w \in Window(peaks[i].X, peaks[i].Y, 2) :
                  row["5X5"][w.dx + 3][w.dy + 3] =
                      IF InFrame(w.px, w.py)
                      THEN Float(bkgremoved[peaks[i].FRAME][w.px][w.py])
                      ELSE NaN

\* the entries evt.meta['HISTORY'] holds
ProvenanceLog(t) ==
    IF "HISTORY" \in DOMAIN t.meta THEN <<t.meta["HISTORY"]>> ELSE <<>>

EntryFor(log, k, mark) == k \in DOMAIN log /\ \E j \in DOMAIN log[k] : log[k][j] = mark

\* C10 (as claimed): after a completed run the provenance log of the catalog
\* holds, in order, an entry for the background remover, the peak identifier
\* and the island extractor, and then one for each derived-column stage.
C10_ProvenanceLogComplete ==
    ret.returned =>
        LET log == ProvenanceLog(ret.value) IN
        /\ Len(log) = 3 + Len(DerivedColumns)
        /\ EntryFor(log, 1, "image fitted:")
        /\ EntryFor(log, 2, "evt identify:")
        /\ EntryFor(log, 3, "event islands extracted:")
        /\ \A j \in DOMAIN DerivedColumns : EntryFor(log, 3 + j, DerivedColumns[j])

-----------------------------------------------------------------------------
\* Properties of the hot pixel functions (specification SpecHot)

\* number of rows of the catalog t at the coordinates of its row i
Occurrences(t, i) ==
    Cardinality({j \in DOMAIN t.rows :
                    t.rows[j].X = t.rows[i].X /\ t.rows[j].Y = t.rows[i].Y})

\* C2: hotpixelbyoccurence(evt, n) flags a row if and only if more than n
\* rows of the catalog share its (X, Y): a coordinate that occurs in exactly k
\* rows is flagged for n = k - 1 and not flagged for n = k.
C2_FlaggedIffMoreThanN ==
    (pc = "hotpixelbyoccurence" /\ arg.n # <<>>) =>
        /\ ret.ok
        /\ Len(ret.val) = Len(evt.rows)
        /\ \A i \in DOMAIN evt.rows :
              /\ ret.val[i] <=> Occurrences(evt, i) > arg.n[1]
              /\ Occurrences(evt, i) = arg.n[1] + 1 => ret.val[i]
              /\ Occurrences(evt, i) = arg.n[1] => ~ret.val[i]

C2_Witness ==
    /\ pc = "hotpixelbyoccurence"
    /\ arg.n # <<>>
    /\ \E i, j \in DOMAIN evt.rows :
          /\ Occurrences(evt, i) = arg.n[1] + 1 /\ ret.val[i]
          /\ Occurrences(evt, j) = arg.n[1] /\ ~ret.val[j]

\* C3 (as claimed): make_hotpixellist(evt, n) returns a table whose (X, Y)
\* pairs are exactly the coordinates of the rows hotpixelbyoccurence(evt, n)
\* flags.
C3_TableEqualsFlagged ==
    pc = "make_hotpixellist" =>
        LET flags == hotpixelbyoccurence(evt, arg.n).val IN
        /\ ret.ok
        /\ {<<ret.val.rows[k].X, ret.val.rows[k].Y>> : k \in DOMAIN ret.val.rows}
             = {<<evt.rows[i].X, evt.rows[i].Y>> : i \in {j \in DOMAIN evt.rows : flags[j]}}

\* the result of a call of hotpixelfromtxt
FromTxtResult ==
    pc = "hotpixelfromtxt" =>
        IF Len(arg.x) # Len(arg.y) THEN ~ret.ok /\ ret.val = <<>>
        ELSE /\ ret.ok
             /\ Len(ret.val) = Len(evt.rows)
             /\ \A r \in DOMAIN evt.rows :
                   ret.val[r] <=> \E i \in DOMAIN arg.x :
                                     evt.rows[r].X = arg.x[i] /\ evt.rows[r].Y = arg.y[i]

-----------------------------------------------------------------------------
\* Properties of the grades (specification SpecGrade)

\* the results of acis_grade and of asca_grade on the row
GradeResult ==
    HasCol(evt, "GRADE") =>
        LET isl == evt.rows[1]["3X3"]
            g == evt.rows[1].GRADE
        IN  /\ g \in 0 .. 255
            /\ \A a, b \in 1 .. 3 :
                  (a # 2 \/ b # 2) =>
                      ((g \div grademap[a][b]) % 2 = 1
                          <=> (isl[a][b].fin /\ isl[a][b].v > 10 * MedianDen))

AscaResult ==
    HasCol(evt, "ASCA") =>
        LET g == evt.rows[1].GRADE
            asca == evt.rows[1].ASCA
            holding == {k \in DOMAIN acis2asca : g \in acis2asca[k]}
        IN  /\ asca \in 0 .. 7
            /\ holding = {} => asca = 7
            /\ holding # {} => holding = {asca + 1}

\* C4: acis_grade is the sum of the grademap weights of the pixels above 10
\* counts, a number in 0..255 in which the bit of a weight is set exactly when
\* the pixel of that weight is above 10; asca_grade maps a grade to the key of
\* the acis2asca list that holds it and to 7 when none does, a number in 0..7.
C4_Grades == GradeResult /\ AscaResult

C4_Witness ==
    /\ HasCol(evt, "ASCA")
    /\ evt.rows[1].GRADE = 255
    /\ evt.rows[1].ASCA = 7
    /\ evt.rows[1].GRADE \notin UNION {acis2asca[k] : k \in DOMAIN acis2asca}

====
